---- MODULE Spec2Model ----
(***************************************************************************)
(* Virtual Health & Diet Planner (src/app.py): the SQLite account,         *)
(* profile and progress store, the start-up catalog loading, the diet and  *)
(* exercise recommendations and the metric formulas, as state machines.    *)
(*                                                                         *)
(* Python values: None is the empty tuple and a present optional value x   *)
(* is the one-element tuple <<x>>, so that values of the two kinds can be  *)
(* compared.  Text whose characters the code inspects (lower(), strip(),   *)
(* split(), contains) is a sequence of one-character strings; text that    *)
(* is only stored and compared whole is a string.                          *)
(***************************************************************************)
EXTENDS Integers, Sequences, FiniteSets, TLC

VARIABLES
    users,          \* rows of table users, in rowid order
    users_seq,      \* sqlite_sequence entry of table users (AUTOINCREMENT)
    profiles,       \* rows of table profiles (user_id is the primary key)
    progress,       \* rows of table progress, in rowid order
    ret,            \* the last store call: its name, arguments and result
    saved,          \* history: user_id -> the profile of the last save_profile
    logged,         \* history: the add_progress calls, in call order
    metric_in,      \* the metric function called and its arguments
    metric_out,     \* its result, None before the call
    pc,             \* the line the script run is at, "done" or "crashed"
    files,          \* foods.csv and exercises.csv: None when absent
    foods_df,       \* the module's foods_df, None before its first assignment
    exercises_df,   \* the module's exercises_df
    ex_df,          \* the module's ex_df
    session,        \* the logged-in user's profile (diet_pref, goal) or None
    meals,          \* the diet loop's list meals
    recs,           \* the exercise rows written out, None before
    crash           \* the exception that ended the run, or None

storeVars == <<users, users_seq, profiles, progress, ret, saved, logged>>

metricVars == <<metric_in, metric_out>>

appVars ==
    <<pc, files, foods_df, exercises_df, ex_df, session, meals, recs, crash>>

vars == <<storeVars, metricVars, appVars>>

None == <<>>

Some(x) == <<x>>

Range(s) == {s[i] : i \in 1..Len(s)}

----------------------------------------------------------------------------
(* Python str methods on text held as a sequence of characters.            *)

Upper == <<"A", "B", "C", "D", "E", "F", "G", "H", "I", "J", "K", "L", "M",
           "N", "O", "P", "Q", "R", "S", "T", "U", "V", "W", "X", "Y", "Z">>

Lowercase == <<"a", "b", "c", "d", "e", "f", "g", "h", "i", "j", "k", "l", "m",
           "n", "o", "p", "q", "r", "s", "t", "u", "v", "w", "x", "y", "z">>

LowerChar(c) ==
    IF \E i \in 1..26 : Upper[i] = c
    THEN Lowercase[CHOOSE i \in 1..26 : Upper[i] = c]
    ELSE c

\* str.lower()
Lower(s) == [i \in 1..Len(s) |-> LowerChar(s[i])]

----------------------------------------------------------------------------
(* Bounds of the store model.                                              *)

\* rows of the three tables together
MaxRows == 3

Usernames == {"", "alice", "Alice"}

Passwords == {"pw1", "pw2"}

FullNames == {""}

\* user ids handed to the profile and progress calls (1, 2 are the ids the
\* users table assigns first; the tables declare but do not enforce the
\* foreign key, so an id needs no user)
UserIds == {1, 2}

Timestamps == {"2024-01-05T10:00:00"}

ProfileInputs ==
    { [age |-> 25, sex |-> "Male", height_cm |-> 170, weight_kg |-> 70,
       activity_level |-> "Sedentary (little/no exercise)",
       goal |-> "Lose weight", diet_pref |-> "veg"],
      [age |-> 40, sex |-> "Female", height_cm |-> 160, weight_kg |-> 55,
       activity_level |-> "Very active (6-7 days/week)",
       goal |-> "Build muscle", diet_pref |-> "vegan"] }

\* the daily log form with the day of the call (two days across a year
\* end): an entry with every optional field empty, and two filled entries,
\* one of them for the same day as the empty one
LogInputs ==
    { [day |-> [y |-> 2024, m |-> 1, d |-> 5],
       weight_kg |-> None, calories_consumed |-> None,
       completed |-> FALSE, notes |-> ""],
      [day |-> [y |-> 2024, m |-> 1, d |-> 5],
       weight_kg |-> Some(70), calories_consumed |-> Some(1500),
       completed |-> TRUE, notes |-> "ok"],
      [day |-> [y |-> 2023, m |-> 12, d |-> 31],
       weight_kg |-> Some(71), calories_consumed |-> Some(1800),
       completed |-> TRUE, notes |-> "ok"] }

----------------------------------------------------------------------------
(* AccountStore: users.                                                    *)

\* hashlib.sha256(password.encode()).hexdigest(): a digest, never the
\* plaintext; distinct passwords of the model have distinct digests
hash_password(password) == <<"sha256", password>>

\* a users table without the UNIQUE constraint on username
UniqueUsernameMissing(us, username) == FALSE

\* username TEXT UNIQUE: the insert conflicts with a stored row of exactly
\* that username (BINARY collation: case-sensitive)
UniqueUsernameConflict(us, username) ==
    \E i \in 1..Len(us) : us[i].username = username

\* id INTEGER PRIMARY KEY AUTOINCREMENT: one more than the largest id ever
\* given; a failed insert gives none
NextUserId(us, seq) ==
    LET m == IF us = <<>> THEN 0
             ELSE CHOOSE x \in {us[i].id : i \in 1..Len(us)} :
                      \A j \in 1..Len(us) : us[j].id <= x
    IN  (IF m > seq THEN m ELSE seq) + 1

\* register_user: the new table, sequence and returned pair; raised is
\* whether an exception leaves the function
register_user(us, seq, username, password, full_name) ==
    IF UniqueUsernameConflict(us, username)
    THEN \* sqlite3.IntegrityError, caught
         [users |-> us, seq |-> seq, raised |-> FALSE,
          value |-> <<FALSE, Some("Username already exists.")>>]
    ELSE LET id == NextUserId(us, seq)
         IN  [users |-> Append(us, [id |-> id, username |-> username,
                                    password_hash |-> hash_password(password),
                                    full_name |-> full_name]),
              seq |-> id, raised |-> FALSE,
              value |-> <<TRUE, None>>]

Register(username, password, full_name) ==
    LET r == register_user(users, users_seq, username, password, full_name)
    IN  /\ Len(r.users) + Cardinality(profiles) + Len(progress) <= MaxRows
        /\ users' = r.users
        /\ users_seq' = r.seq
        /\ ret' = [op |-> "register_user", user |-> username,
                   password |-> password, raised |-> r.raised,
                   value |-> r.value]
        /\ UNCHANGED <<profiles, progress, saved, logged, metricVars, appVars>>

\* authenticate that looks the username up and never compares the digest
authenticate_no_digest_check(us, username, password) ==
    LET rows == {i \in 1..Len(us) : us[i].username = username}
    IN  IF rows # {}
        THEN <<TRUE, Some(us[CHOOSE i \in rows : \A j \in rows : i <= j].id)>>
        ELSE <<FALSE, None>>

\* authenticate: SELECT id, password_hash ... WHERE username = ?; fetchone
authenticate(us, username, password) ==
    LET rows == {i \in 1..Len(us) : us[i].username = username}
    IN  IF rows # {}
        THEN LET row == us[CHOOSE i \in rows : \A j \in rows : i <= j]
             IN  IF hash_password(password) = row.password_hash
                 THEN <<TRUE, Some(row.id)>>
                 ELSE <<FALSE, None>>
        ELSE <<FALSE, None>>

Authenticate(username, password) ==
    /\ ret' = [op |-> "authenticate", user |-> username,
               password |-> password, raised |-> FALSE,
               value |-> authenticate(users, username, password)]
    /\ UNCHANGED <<users, users_seq, profiles, progress, saved, logged, metricVars, appVars>>

----------------------------------------------------------------------------
(* AccountStore: profiles.                                                 *)

ProfileKeys ==
    <<"age", "sex", "height_cm", "weight_kg", "activity_level", "goal",
      "diet_pref">>

\* INSERT OR IGNORE: a stored profile is kept and the new one dropped
save_profile_or_ignore(pf, user_id, profile, now) ==
    IF \E r \in pf : r.user_id = user_id THEN pf
    ELSE pf \cup {[user_id |-> user_id, age |-> profile["age"],
                   sex |-> profile["sex"], height_cm |-> profile["height_cm"],
                   weight_kg |-> profile["weight_kg"],
                   activity_level |-> profile["activity_level"],
                   goal |-> profile["goal"], diet_pref |-> profile["diet_pref"],
                   created_at |-> now]}

\* save_profile: INSERT OR REPLACE INTO profiles; user_id is the primary key,
\* so the row of that user_id, if any, is deleted and the new row inserted
save_profile(pf, user_id, profile, now) ==
    {r \in pf : r.user_id # user_id}
        \cup {[user_id |-> user_id, age |-> profile["age"],
               sex |-> profile["sex"], height_cm |-> profile["height_cm"],
               weight_kg |-> profile["weight_kg"],
               activity_level |-> profile["activity_level"],
               goal |-> profile["goal"], diet_pref |-> profile["diet_pref"],
               created_at |-> now]}

SaveProfile(user_id, profile, now) ==
    /\ Len(users) + Cardinality(save_profile(profiles, user_id, profile, now))
          + Len(progress) <= MaxRows
    /\ profiles' = save_profile(profiles, user_id, profile, now)
    /\ saved' = [saved EXCEPT ![user_id] = Some(profile)]
    /\ ret' = [op |-> "save_profile", user |-> user_id, raised |-> FALSE,
               value |-> None, replaced |-> saved[user_id]]
    /\ UNCHANGED <<users, users_seq, progress, logged, metricVars, appVars>>

\* dict(zip(keys, row)) for a row of the seven selected columns
ZipDict(keys, row) ==
    [k \in Range(keys) |-> row[CHOOSE i \in 1..Len(keys) : keys[i] = k]]

\* get_profile: SELECT age, sex, height_cm, weight_kg, activity_level, goal,
\* diet_pref FROM profiles WHERE user_id = ?; None when there is no row
get_profile(pf, user_id) ==
    LET rows == {r \in pf : r.user_id = user_id}
    IN  IF rows # {}
        THEN LET r == CHOOSE x \in rows : TRUE
             IN  Some(ZipDict(ProfileKeys,
                              <<r.age, r.sex, r.height_cm, r.weight_kg,
                                r.activity_level, r.goal, r.diet_pref>>))
        ELSE None

GetProfile(user_id) ==
    /\ ret' = [op |-> "get_profile", user |-> user_id, raised |-> FALSE,
               value |-> get_profile(profiles, user_id)]
    /\ UNCHANGED <<users, users_seq, profiles, progress, saved, logged, metricVars, appVars>>

----------------------------------------------------------------------------
(* ProgressStore.                                                          *)

Digit(n) == CASE n = 0 -> "0" [] n = 1 -> "1" [] n = 2 -> "2" [] n = 3 -> "3"
              [] n = 4 -> "4" [] n = 5 -> "5" [] n = 6 -> "6" [] n = 7 -> "7"
              [] n = 8 -> "8" [] n = 9 -> "9"

\* the code point of a character of a date text
Ord(c) == CASE c = "-" -> 45 [] c = "0" -> 48 [] c = "1" -> 49 [] c = "2" -> 50
            [] c = "3" -> 51 [] c = "4" -> 52 [] c = "5" -> 53 [] c = "6" -> 54
            [] c = "7" -> 55 [] c = "8" -> 56 [] c = "9" -> 57

\* date.isoformat(): YYYY-MM-DD, zero-padded
isoformat(day) ==
    <<Digit(day.y \div 1000), Digit((day.y \div 100) % 10),
      Digit((day.y \div 10) % 10), Digit(day.y % 10), "-",
      Digit(day.m \div 10), Digit(day.m % 10), "-",
      Digit(day.d \div 10), Digit(day.d % 10)>>

\* pd.to_datetime of a YYYY-MM-DD text
to_datetime(text) ==
    LET v(i) == Ord(text[i]) - 48
    IN  [y |-> 1000 * v(1) + 100 * v(2) + 10 * v(3) + v(4),
         m |-> 10 * v(6) + v(7),
         d |-> 10 * v(9) + v(10)]

\* SQLite's comparison of two TEXT values: memcmp, then the shorter first
TextLess(a, b) ==
    \E i \in 1..(Len(a) + 1) :
        /\ \A j \in 1..(i - 1) : j <= Len(b) /\ a[j] = b[j]
        /\ \/ i = Len(a) + 1 /\ Len(b) >= i
           \/ i <= Len(a) /\ i <= Len(b) /\ Ord(a[i]) < Ord(b[i])

\* int(completed)
BoolToInt(b) == IF b THEN 1 ELSE 0

\* add_progress: INSERT INTO progress; id is AUTOINCREMENT and no row of
\* progress is ever deleted, so the new id is the row count plus one
add_progress(pg, user_id, date, weight_kg, calories_consumed, completed, notes) ==
    Append(pg, [id |-> Len(pg) + 1, user_id |-> user_id, date |-> date,
                weight_kg |-> weight_kg,
                calories_consumed |-> calories_consumed,
                completed |-> BoolToInt(completed), notes |-> notes])

AddProgress(user_id, e) ==
    /\ Len(users) + Cardinality(profiles) + Len(progress) < MaxRows
    /\ progress' = add_progress(progress, user_id, isoformat(e.day), e.weight_kg,
                                e.calories_consumed, e.completed, e.notes)
    /\ logged' = Append(logged, [user_id |-> user_id, day |-> e.day,
                                 weight_kg |-> e.weight_kg,
                                 calories_consumed |-> e.calories_consumed,
                                 completed |-> e.completed, notes |-> e.notes])
    /\ ret' = [op |-> "add_progress", user |-> user_id, raised |-> FALSE,
               value |-> None]
    /\ UNCHANGED <<users, users_seq, profiles, saved, metricVars, appVars>>

\* the data frame row of a selected progress row
ProgressFrameRow(r) ==
    [date |-> to_datetime(r.date), weight_kg |-> r.weight_kg,
     calories_consumed |-> r.calories_consumed, completed |-> r.completed,
     notes |-> r.notes]

\* the query without ORDER BY: rows in rowid order
get_progress_unordered(pg, user_id) ==
    LET idx == {i \in 1..Len(pg) : pg[i].user_id = user_id}
        n == Cardinality(idx)
    IN  { [k \in 1..n |-> ProgressFrameRow(pg[f[k]])] :
            f \in {g \in [1..n -> idx] : \A a, b \in 1..n : a < b => g[a] < g[b]} }

\* get_progress: SELECT ... WHERE user_id = ? ORDER BY date, as a data frame
\* with the date column parsed.  SQL leaves the order of rows of equal date
\* open: every result the query may give.
get_progress(pg, user_id) ==
    LET idx == {i \in 1..Len(pg) : pg[i].user_id = user_id}
        n == Cardinality(idx)
    IN  { [k \in 1..n |-> ProgressFrameRow(pg[f[k]])] :
            f \in {g \in [1..n -> idx] :
                     /\ \A a, b \in 1..n : a # b => g[a] # g[b]
                     /\ \A a, b \in 1..n :
                          a < b => ~TextLess(pg[g[b]].date, pg[g[a]].date)} }

GetProgress(user_id) ==
    /\ \E df \in get_progress(progress, user_id) :
          ret' = [op |-> "get_progress", user |-> user_id, raised |-> FALSE,
                  value |-> df]
    /\ UNCHANGED <<users, users_seq, profiles, progress, saved, logged, metricVars, appVars>>

----------------------------------------------------------------------------
(* The store: a fresh users.db after init_db, then any calls.              *)

StoreInit ==
    /\ users = <<>>
    /\ users_seq = 0
    /\ profiles = {}
    /\ progress = <<>>
    /\ ret = [op |-> "init_db", user |-> None, raised |-> FALSE, value |-> None]
    /\ saved = [u \in UserIds |-> None]
    /\ logged = <<>>

MetricIdle == metric_in = None /\ metric_out = None

AppIdle ==
    /\ pc = "off"
    /\ files = [foods |-> None, exercises |-> None]
    /\ foods_df = None
    /\ exercises_df = None
    /\ ex_df = None
    /\ session = None
    /\ meals = <<>>
    /\ recs = None
    /\ crash = None

Init == StoreInit /\ MetricIdle /\ AppIdle

Next ==
    \/ \E u \in Usernames, p \in Passwords, n \in FullNames : Register(u, p, n)
    \/ \E u \in Usernames, p \in Passwords : Authenticate(u, p)
    \/ \E u \in UserIds, p \in ProfileInputs, t \in Timestamps : SaveProfile(u, p, t)
    \/ \E u \in UserIds : GetProfile(u)
    \/ \E u \in UserIds, e \in LogInputs : AddProgress(u, e)
    \/ \E u \in UserIds : GetProgress(u)

Spec == Init /\ [][Next]_vars

----------------------------------------------------------------------------
(* Claims about the store.                                                 *)

UsernameStored(username) == \E i \in 1..Len(users) : users[i].username = username

UsersUnique ==
    \A i, j \in 1..Len(users) :
        i # j => /\ users[i].username # users[j].username
                 /\ users[i].id # users[j].id

RegisterStep ==
    ret'.op = "register_user" =>
        /\ ~ret'.raised
        /\ IF UsernameStored(ret'.user)
           THEN /\ ret'.value = <<FALSE, Some("Username already exists.")>>
                /\ users' = users
           ELSE /\ ret'.value = <<TRUE, None>>
                /\ Len(users') = Len(users) + 1
                /\ \A i \in 1..Len(users) : users'[i] = users[i]
                /\ users'[Len(users')].username = ret'.user
                /\ users'[Len(users')].password_hash = hash_password(ret'.password)

\* C1: after any register calls no two stored users share a username
\* (compared case-sensitively) or an identifier; a register call whose
\* username is stored returns (False, "Username already exists."), raises
\* nothing and leaves the stored users as they were, and any other register
\* call stores the user.
C1_RegisterUnique == [](UsersUnique) /\ [][RegisterStep]_vars

\* a duplicate registration was just refused while two users whose names
\* differ only in letter case are stored
C1_Witness ==
    /\ ret.op = "register_user"
    /\ ret.value = <<FALSE, Some("Username already exists.")>>
    /\ UsernameStored("alice")
    /\ UsernameStored("Alice")

AuthenticateResult ==
    ret.op = "authenticate" =>
        /\ ~ret.raised
        /\ \A id \in 1..MaxRows + 1 :
              ret.value = <<TRUE, Some(id)>> <=>
                  \E i \in 1..Len(users) :
                      /\ users[i].username = ret.user
                      /\ users[i].password_hash = hash_password(ret.password)
                      /\ users[i].id = id
        /\ \/ \E id \in 1..MaxRows + 1 : ret.value = <<TRUE, Some(id)>>
           \/ ret.value = <<FALSE, None>>

AuthenticateStep ==
    ret'.op = "authenticate" => UNCHANGED <<users, users_seq, profiles, progress>>

\* C2: authenticate(username, password) returns (True, id of that user)
\* exactly when a user of exactly that username is stored and the digest of
\* the password equals the stored digest; otherwise, for an unknown
\* username as for a wrong password, it returns (False, None); it changes
\* no stored user, profile or progress entry.
C2_Authenticate == [](AuthenticateResult) /\ [][AuthenticateStep]_vars

\* a stored user was just refused for a wrong password
C2_Witness ==
    /\ ret.op = "authenticate"
    /\ ret.value = <<FALSE, None>>
    /\ UsernameStored(ret.user)
    /\ Len(users) = 2

ProfileEqual(got, want) ==
    /\ DOMAIN got = Range(ProfileKeys)
    /\ \A k \in Range(ProfileKeys) : got[k] = want[k]

ProfileAsSaved(value, user_id) ==
    IF saved[user_id] = None
    THEN value = None
    ELSE value # None /\ ProfileEqual(value[1], saved[user_id][1])

ProfilesState ==
    /\ \A r1, r2 \in profiles : r1.user_id = r2.user_id => r1 = r2
    /\ \A u \in UserIds : ProfileAsSaved(get_profile(profiles, u), u)
    /\ ret.op = "get_profile" => ProfileAsSaved(ret.value, ret.user)

SaveProfileStep ==
    ret'.op = "save_profile" =>
        \A v \in UserIds \ {ret'.user} :
            get_profile(profiles', v) = get_profile(profiles, v)

\* C3: there is at most one profile per user id; get_profile(u) returns,
\* field for field, the profile most recently saved for u, and None exactly
\* when none was ever saved for u; a save for u leaves the profile of every
\* other user as it was.
C3_ProfileRoundTrip == [](ProfilesState) /\ [][SaveProfileStep]_vars

\* a save just replaced a different profile of the user, get_profile gives
\* the new one back, and another user has a profile too
C3_Witness ==
    /\ ret.op = "save_profile"
    /\ ret.replaced # None
    /\ ret.replaced # saved[ret.user]
    /\ get_profile(profiles, ret.user) # None
    /\ \E v \in UserIds \ {ret.user} : get_profile(profiles, v) # None

DayBefore(a, b) ==
    \/ a.y < b.y
    \/ a.y = b.y /\ a.m < b.m
    \/ a.y = b.y /\ a.m = b.m /\ a.d < b.d

Count(s, x) == Cardinality({i \in 1..Len(s) : s[i] = x})

\* the history entry as get_progress reports it
Reported(e) ==
    [date |-> e.day, weight_kg |-> e.weight_kg,
     calories_consumed |-> e.calories_consumed,
     completed |-> IF e.completed THEN 1 ELSE 0, notes |-> e.notes]

HistoryOf(df, user_id) ==
    LET mine == SelectSeq(logged, LAMBDA e : e.user_id = user_id)
        want == [i \in 1..Len(mine) |-> Reported(mine[i])]
    IN  /\ Len(df) = Len(want)
        /\ \A x \in Range(df) \cup Range(want) : Count(df, x) = Count(want, x)
        /\ \A a, b \in 1..Len(df) : a < b => ~DayBefore(df[b].date, df[a].date)

ProgressState ==
    /\ \A u \in UserIds :
          LET frames == get_progress(progress, u)
          IN  frames # {} /\ \A df \in frames : HistoryOf(df, u)
    /\ ret.op = "get_progress" => ~ret.raised /\ HistoryOf(ret.value, ret.user)

ProgressStep ==
    /\ Len(progress') >= Len(progress)
    /\ \A i \in 1..Len(progress) : progress'[i] = progress[i]

\* C4: get_progress(u) returns exactly the entries appended for u, one per
\* add_progress call, duplicates of a day included, none of another user,
\* ascending by date, and the empty frame without an error for a user with
\* no entries; no operation alters or removes a stored entry.
C4_ProgressHistory == [](ProgressState) /\ [][ProgressStep]_vars

\* get_progress just returned three entries that were appended out of date
\* order, two of them for the same day
C4_Witness ==
    /\ ret.op = "get_progress"
    /\ Len(ret.value) = 3
    /\ Len(logged) = 3
    /\ DayBefore(logged[2].day, logged[1].day)
    /\ logged[3].day = logged[1].day
    /\ logged[3] # logged[1]

\* C12: in every reachable state of the store, whatever usernames the
\* register calls were given (the empty string of a blank form field
\* included), every stored user has a non-empty username.
C12_Original == \A i \in 1..Len(users) : users[i].username # ""

----------------------------------------------------------------------------
(* MetricsEngine.                                                          *)

\* round(): num/den (den > 0) to the nearest integer, a tie to the even one.
\* The floats of the model (whole kg, cm and years, whole bmr) make every
\* product and sum below exact or off a tie by far more than the rounding
\* error, so the float result is the exact one.
RoundHalfEven(num, den) ==
    LET q == num \div den
        r == num % den
    IN  IF 2 * r < den THEN q
        ELSE IF 2 * r > den THEN q + 1
        ELSE IF q % 2 = 0 THEN q ELSE q + 1

MaleTokens == { <<"m", "a", "l", "e">>, <<"m">>, <<"m", "a", "n">> }

\* calc_bmr comparing sex as given, without lower()
calc_bmr_case_sensitive(sex, weight_kg, height_cm, age) ==
    IF sex \in MaleTokens
    THEN RoundHalfEven(40 * weight_kg + 25 * height_cm - 20 * age + 20, 4)
    ELSE RoundHalfEven(40 * weight_kg + 25 * height_cm - 20 * age - 644, 4)

\* calc_bmr (Mifflin-St Jeor): int(round(10*w + 6.25*h - 5*a + 5)), or - 161;
\* the sum is held in quarters
calc_bmr(sex, weight_kg, height_cm, age) ==
    IF Lower(sex) \in MaleTokens
    THEN RoundHalfEven(40 * weight_kg + 25 * height_cm - 20 * age + 20, 4)
    ELSE RoundHalfEven(40 * weight_kg + 25 * height_cm - 20 * age - 644, 4)

\* ACTIVITY_MULTIPLIER, in thousandths
ACTIVITY_MULTIPLIER ==
    [k \in {"Sedentary (little/no exercise)", "Lightly active (1-3 days/week)",
            "Moderately active (3-5 days/week)", "Very active (6-7 days/week)",
            "Extra active (very intense)"} |->
        CASE k = "Sedentary (little/no exercise)" -> 1200
          [] k = "Lightly active (1-3 days/week)" -> 1375
          [] k = "Moderately active (3-5 days/week)" -> 1550
          [] k = "Very active (6-7 days/week)" -> 1725
          [] k = "Extra active (very intense)" -> 1900]

GOAL_ADJUSTMENT ==
    [k \in {"Lose weight", "Gain weight", "Maintain", "Build muscle"} |->
        CASE k = "Lose weight" -> -500
          [] k = "Gain weight" -> 300
          [] k = "Maintain" -> 0
          [] k = "Build muscle" -> 250]

\* dict.get(key, default)
DictGet(dict, key, default) == IF key \in DOMAIN dict THEN dict[key] ELSE default

\* target_calories that drops the goal adjustment
target_calories_no_adjust(bmr, activity_level, goal) ==
    RoundHalfEven(bmr * DictGet(ACTIVITY_MULTIPLIER, activity_level, 1200), 1000)

\* target_calories: int(round(bmr * multiplier + adjust))
target_calories(bmr, activity_level, goal) ==
    LET multiplier == DictGet(ACTIVITY_MULTIPLIER, activity_level, 1200)
        adjust == DictGet(GOAL_ADJUSTMENT, goal, 0)
    IN  RoundHalfEven(bmr * multiplier + 1000 * adjust, 1000)

(* Inputs of the metric calls.                                             *)

SexTokens ==
    { <<"m", "a", "l", "e">>, <<"M", "a", "l", "e">>, <<"M", "A", "L", "E">>,
      <<"m">>, <<"M">>, <<"M", "a", "n">>,
      <<"f", "e", "m", "a", "l", "e">>, <<"F", "e", "m", "a", "l", "e">>,
      <<"O", "t", "h", "e", "r">>, <<"w", "o", "m", "a", "n">>, <<>> }

Weights == {55, 70, 71}

\* first height of the model
HeightFrom == 173

\* heights of the model: HeightFrom .. HeightFrom + HeightSpan
HeightSpan == 3

Ages == {25, 30, 31}

\* first bmr of the model
BmrFrom == 1660

\* bmr values of the model: BmrFrom .. BmrFrom + BmrSpan
BmrSpan == 20

ActivityLevels ==
    DOMAIN ACTIVITY_MULTIPLIER \cup {"Sedentary", "Couch potato"}

Goals == DOMAIN GOAL_ADJUSTMENT \cup {"Posture", "lose weight"}

MetricInputs ==
    { [fn |-> "calc_bmr", sex |-> s, weight_kg |-> w, height_cm |-> h, age |-> a] :
        s \in SexTokens, w \in Weights,
        h \in HeightFrom..(HeightFrom + HeightSpan), a \in Ages }
    \cup
    { [fn |-> "target_calories", bmr |-> b, activity_level |-> l, goal |-> g] :
        b \in BmrFrom..(BmrFrom + BmrSpan), l \in ActivityLevels, g \in Goals }

CalcBmr ==
    /\ metric_in # None /\ metric_out = None
    /\ metric_in[1].fn = "calc_bmr"
    /\ metric_out' = Some(calc_bmr(metric_in[1].sex, metric_in[1].weight_kg,
                                   metric_in[1].height_cm, metric_in[1].age))
    /\ UNCHANGED <<metric_in, storeVars, appVars>>

TargetCalories ==
    /\ metric_in # None /\ metric_out = None
    /\ metric_in[1].fn = "target_calories"
    /\ metric_out' = Some(target_calories(metric_in[1].bmr,
                                          metric_in[1].activity_level,
                                          metric_in[1].goal))
    /\ UNCHANGED <<metric_in, storeVars, appVars>>

MetricsInit ==
    /\ StoreInit
    /\ AppIdle
    /\ \E i \in MetricInputs : metric_in = Some(i)
    /\ metric_out = None

MetricsNext == CalcBmr \/ TargetCalories

SpecMetrics == MetricsInit /\ [][MetricsNext]_vars

----------------------------------------------------------------------------
(* Claims about the metric formulas.                                       *)

Abs(x) == IF x < 0 THEN -x ELSE x

\* r is an integer nearest to num/den
Nearest(r, num, den) == 2 * Abs(den * r - num) <= den

EqualIgnoringCase(a, b) ==
    /\ Len(a) = Len(b)
    /\ \A i \in 1..Len(a) : LowerChar(a[i]) = LowerChar(b[i])

MaleEquivalent(sex) == \E t \in MaleTokens : EqualIgnoringCase(sex, t)

BmrCalled == metric_in # None /\ metric_in[1].fn = "calc_bmr" /\ metric_out # None

BmrFormula ==
    BmrCalled =>
        LET i == metric_in[1]
            sum4 == 40 * i.weight_kg + 25 * i.height_cm - 20 * i.age
        IN  IF MaleEquivalent(i.sex)
            THEN Nearest(metric_out[1], sum4 + 4 * 5, 4)
            ELSE Nearest(metric_out[1], sum4 - 4 * 161, 4)

BmrWorkedCase ==
    /\ BmrCalled
    /\ metric_in[1].sex = <<"m", "a", "l", "e">>
    /\ metric_in[1].weight_kg = 70
    /\ metric_in[1].height_cm = 175
    /\ metric_in[1].age = 30

\* C9 as stated: the formula, and calc_bmr("male", 70, 175, 30) = 1673
C9_Original == BmrFormula /\ (BmrWorkedCase => metric_out[1] = 1673)

\* C9, amended: calc_bmr returns 10*w + 6.25*h - 5*a + 5 rounded to the
\* nearest integer when sex is male, m or man compared case-insensitively,
\* and 10*w + 6.25*h - 5*a - 161 rounded to the nearest integer for every
\* other token; calc_bmr("male", 70, 175, 30) = 1649.
C9_Bmr == BmrFormula /\ (BmrWorkedCase => metric_out[1] = 1649)

\* calc_bmr("male", 70, 175, 30) was computed
C9_Witness == BmrWorkedCase

TargetCalled ==
    metric_in # None /\ metric_in[1].fn = "target_calories" /\ metric_out # None

\* the claim's activity table, in thousandths; the code's keys carry the
\* parenthesised description of each level
ClaimedMultiplier(level) ==
    CASE level = "Sedentary (little/no exercise)" -> 1200
      [] level = "Lightly active (1-3 days/week)" -> 1375
      [] level = "Moderately active (3-5 days/week)" -> 1550
      [] level = "Very active (6-7 days/week)" -> 1725
      [] level = "Extra active (very intense)" -> 1900
      [] OTHER -> 1200

ClaimedAdjustment(goal) ==
    CASE goal = "Lose weight" -> -500
      [] goal = "Gain weight" -> 300
      [] goal = "Build muscle" -> 250
      [] goal = "Maintain" -> 0
      [] OTHER -> 0

TargetWorkedCase ==
    /\ TargetCalled
    /\ metric_in[1].bmr = 1673
    /\ metric_in[1].activity_level = "Sedentary"
    /\ metric_in[1].goal = "Lose weight"

----------------------------------------------------------------------------
(* MetricsEngine: BMI.                                                     *)

\* A float of the model is sig * 10^exp.  Whole kilograms and centimetres
\* have exp = 0; a number with exp < 0 has sig = 1 (a power of ten), which
\* makes the tests below on exp alone exact for the doubles of the code.
Num(sig, exp) == [sig |-> sig, exp |-> exp]

\* 1e-323 is the smallest power of ten a double holds as a non-zero value:
\* a quotient or product of magnitude 1e-324 is 0.0
MinExp10 == -323

\* 1e309 is the smallest power of ten beyond the largest double: a quotient
\* of that magnitude is inf
InfExp10 == 309

\* the double of a quotient or product: 0.0 once it is below the smallest
\* subnormal
Flush(x) == IF x.sig # 0 /\ x.exp < MinExp10 THEN Num(0, 0) ELSE x

Pow10[n \in 0..9] == IF n = 0 THEN 1 ELSE 10 * Pow10[n - 1]

\* a BMI value: tenths when finite (inf = 0), else inf or -inf by sign
Finite(t) == [inf |-> 0, tenths |-> t]

Infinite(sign) == [inf |-> sign, tenths |-> 0]

Returned(v) == [raised |-> FALSE, error |-> "", value |-> v]

Raised(e) == [raised |-> TRUE, error |-> e, value |-> None]

\* round(weight_kg / sq, 1) for sq # 0, in tenths.  The double quotient is
\* off the exact one by a rounding error, far less than its distance to a
\* tie between two tenths unless the exact quotient is such a tie: there the
\* double lies to either side and round() gives either neighbour.
RoundedQuotient(weight_kg, sq) ==
    IF weight_kg = 0 THEN {Finite(0)}
    ELSE IF -sq.exp >= InfExp10
    THEN {Infinite(IF weight_kg > 0 THEN 1 ELSE -1)}
    ELSE LET num == weight_kg * Pow10[1 - sq.exp]
             q == num \div sq.sig
         IN  IF 2 * (num % sq.sig) = sq.sig
             THEN {Finite(q), Finite(q + 1)}
             ELSE {Finite(RoundHalfEven(num, sq.sig))}

\* calc_bmi: every result the call can give (one, but for an exact tie)
calc_bmi(weight_kg, height_cm) ==
    LET h_m == Flush(Num(height_cm.sig, height_cm.exp - 2))
        sq == Flush(Num(h_m.sig * h_m.sig, 2 * h_m.exp))
    IN  IF h_m.sig <= 0 THEN {Returned(None)}
        ELSE IF sq.sig = 0 THEN {Raised("ZeroDivisionError")}
        ELSE {Returned(Some(b)) : b \in RoundedQuotient(weight_kg, sq)}

\* bmi < tenths / 10
FloatLess(b, tenths) == IF b.inf = 0 THEN b.tenths < tenths ELSE b.inf < 0

bmi_category(bmi) ==
    IF bmi = None THEN "Unknown"
    ELSE IF FloatLess(bmi[1], 185) THEN "Underweight"
    ELSE IF FloatLess(bmi[1], 250) THEN "Normal"
    ELSE IF FloatLess(bmi[1], 300) THEN "Overweight"
    ELSE "Obese"

\* whole kilograms, a negative and a zero weight included
BmiWeights == {-1, 0, 3, 53, 70, 74, 100}

\* whole centimetres, negative and zero heights included
WholeHeights == {-170, -1, 0, 40, 100, 170, 200}

\* positive heights 10^k cm from below the smallest double up to the
\* largest one whose squared metres still send every quotient to inf
TinyExps == (MinExp10 - 2)..((4 - InfExp10) \div 2)

BmiHeights ==
    {Num(n, 0) : n \in WholeHeights} \cup {Num(1, k) : k \in TinyExps}

\* BMI values handed to bmi_category directly, in tenths
CategoryFrom == 180

CategorySpan == 125

BmiValues ==
    {None, Some(Infinite(1)), Some(Infinite(-1))}
    \cup {Some(Finite(t)) : t \in CategoryFrom..(CategoryFrom + CategorySpan)}

BmiInputs ==
    { [fn |-> "calc_bmi", weight_kg |-> w, height_cm |-> h] :
        w \in BmiWeights, h \in BmiHeights }
    \cup
    { [fn |-> "bmi_category", bmi |-> b] : b \in BmiValues }

CalcBmi ==
    /\ metric_in # None /\ metric_out = None
    /\ metric_in[1].fn = "calc_bmi"
    /\ \E o \in calc_bmi(metric_in[1].weight_kg, metric_in[1].height_cm) :
          metric_out' = Some([bmi |-> o, category |-> None])
    /\ UNCHANGED <<metric_in, storeVars, appVars>>

\* the dashboard's summary card: bmi_category(bmi) of the BMI just computed
DashboardBmi ==
    /\ metric_in # None /\ metric_out # None
    /\ metric_in[1].fn = "calc_bmi"
    /\ ~metric_out[1].bmi.raised
    /\ metric_out[1].category = None
    /\ metric_out' = Some([bmi |-> metric_out[1].bmi,
                           category |-> Some(bmi_category(metric_out[1].bmi.value))])
    /\ UNCHANGED <<metric_in, storeVars, appVars>>

BmiCategory ==
    /\ metric_in # None /\ metric_out = None
    /\ metric_in[1].fn = "bmi_category"
    /\ metric_out' = Some([bmi |-> Returned(metric_in[1].bmi),
                           category |-> Some(bmi_category(metric_in[1].bmi))])
    /\ UNCHANGED <<metric_in, storeVars, appVars>>

BmiInit ==
    /\ StoreInit
    /\ AppIdle
    /\ \E i \in BmiInputs : metric_in = Some(i)
    /\ metric_out = None

BmiNext == CalcBmi \/ DashboardBmi \/ BmiCategory

SpecBmi == BmiInit /\ [][BmiNext]_vars

----------------------------------------------------------------------------
(* Claims about the BMI.                                                   *)

BmiCalled ==
    metric_in # None /\ metric_in[1].fn = "calc_bmi" /\ metric_out # None

\* b is weight / (height/100)^2 to one decimal: the nearest tenth for whole
\* centimetres; for a height 10^k, k < 0, of the model the quotient of a
\* non-zero weight exceeds every double and inf of its sign stands for it
BmiFormula(b, weight_kg, height_cm) ==
    IF weight_kg = 0 THEN b = Finite(0)
    ELSE IF height_cm.exp = 0
    THEN /\ b.inf = 0
         /\ Nearest(b.tenths, weight_kg * Pow10[5], height_cm.sig * height_cm.sig)
    ELSE b = Infinite(IF weight_kg > 0 THEN 1 ELSE -1)

BmiAsClaimed ==
    BmiCalled =>
        LET w == metric_in[1].weight_kg
            h == metric_in[1].height_cm
            o == metric_out[1].bmi
        IN  /\ ~o.raised
            /\ (o.value = None) <=> (h.sig <= 0)
            /\ (h.sig > 0 /\ o.value # None) => BmiFormula(o.value[1], w, h)

ClaimedCategory(b) ==
    IF FloatLess(b, 185) THEN "Underweight"
    ELSE IF ~FloatLess(b, 185) /\ FloatLess(b, 250) THEN "Normal"
    ELSE IF ~FloatLess(b, 250) /\ FloatLess(b, 300) THEN "Overweight"
    ELSE "Obese"

CategoryWorkedCases ==
    << <<184, "Underweight">>, <<185, "Normal">>, <<249, "Normal">>,
       <<250, "Overweight">>, <<299, "Overweight">>, <<300, "Obese">> >>

CategoryAsClaimed ==
    (metric_out # None /\ metric_out[1].category # None) =>
        LET b == metric_out[1].bmi.value
            c == metric_out[1].category[1]
        IN  /\ (c = "Unknown") <=> (b = None)
            /\ metric_in[1].fn = "calc_bmi" =>
                   ((c = "Unknown") <=> (metric_in[1].height_cm.sig <= 0))
            /\ b # None => c = ClaimedCategory(b[1])
            /\ \A i \in 1..Len(CategoryWorkedCases) :
                   b = Some(Finite(CategoryWorkedCases[i][1]))
                       => c = CategoryWorkedCases[i][2]

\* C11: calc_bmi never raises; it returns None exactly when height_cm <= 0
\* and bmi_category is Unknown exactly then; for height_cm > 0 the BMI is
\* weight / (height/100)^2 rounded to one decimal, and the category is
\* Underweight below 18.5, Normal from 18.5 below 25, Overweight from 25
\* below 30, Obese from 30 (18.4, 18.5, 24.9, 25.0, 29.9, 30.0 as stated).
C11_Original == BmiAsClaimed /\ CategoryAsClaimed

\* the same for heights in whole centimetres, where no product underflows
BmiOnWholeHeights ==
    (metric_in # None /\ metric_in[1].fn = "calc_bmi"
        /\ metric_in[1].height_cm.exp < 0)
    \/ C11_Original

\* a positive height for which calc_bmi raised
BmiRaised ==
    /\ BmiCalled
    /\ metric_in[1].height_cm.sig > 0
    /\ metric_out[1].bmi.raised

\* a positive height for which calc_bmi returned None
BmiUndefinedForPositive ==
    /\ BmiCalled
    /\ metric_in[1].height_cm.sig > 0
    /\ metric_out[1].bmi = Returned(None)

----------------------------------------------------------------------------
(* More str methods.                                                       *)

UpperChar(c) ==
    IF \E i \in 1..26 : Lowercase[i] = c
    THEN Upper[CHOOSE i \in 1..26 : Lowercase[i] = c]
    ELSE c

IsSpace(c) == c \in {" ", "\t", "\n"}

\* str.strip()
Strip(s) ==
    LET keep == {i \in 1..Len(s) : ~IsSpace(s[i])}
    IN  IF keep = {} THEN <<>>
        ELSE SubSeq(s, CHOOSE i \in keep : \A j \in keep : i <= j,
                       CHOOSE i \in keep : \A j \in keep : j <= i)

\* str.capitalize()
Capitalize(s) ==
    [i \in 1..Len(s) |-> IF i = 1 THEN UpperChar(s[i]) ELSE LowerChar(s[i])]

\* str.split(): the whitespace-delimited tokens
Split(s) ==
    LET starts == {i \in 1..Len(s) :
                     ~IsSpace(s[i]) /\ (i = 1 \/ IsSpace(s[i - 1]))}
        end(i) == CHOOSE j \in i..Len(s) :
                     /\ \A k \in i..j : ~IsSpace(s[k])
                     /\ (j = Len(s) \/ IsSpace(s[j + 1]))
        nth(n) == CHOOSE i \in starts : Cardinality({j \in starts : j < i}) = n - 1
    IN  [n \in 1..Cardinality(starts) |-> SubSeq(s, nth(n), end(nth(n)))]

\* pandas str.contains(key) for a key of letters, where the regular
\* expression search is a substring search
Contains(text, key) ==
    \E i \in 1..(Len(text) - Len(key) + 1) :
        SubSeq(text, i, i + Len(key) - 1) = key

----------------------------------------------------------------------------
(* Data frames and the catalog files.  A frame or a CSV file is its header *)
(* and its rows, each row a tuple of cells in header order; tag cells and  *)
(* header names are character sequences.                                   *)

s_food_name == <<"f", "o", "o", "d", "_", "n", "a", "m", "e">>

s_diet_type == <<"d", "i", "e", "t", "_", "t", "y", "p", "e">>

s_cal_per_serving == <<"c", "a", "l", "_", "p", "e", "r", "_", "s", "e", "r", "v", "i", "n", "g">>

s_meal_type == <<"m", "e", "a", "l", "_", "t", "y", "p", "e">>

s_name == <<"n", "a", "m", "e">>

s_cal_per_100g == <<"c", "a", "l", "_", "p", "e", "r", "_", "1", "0", "0", "g">>

s_diet_tag == <<"d", "i", "e", "t", "_", "t", "a", "g">>

s_calories == <<"c", "a", "l", "o", "r", "i", "e", "s">>

s_breakfast == <<"b", "r", "e", "a", "k", "f", "a", "s", "t">>

s_lunch == <<"l", "u", "n", "c", "h">>

s_snack == <<"s", "n", "a", "c", "k">>

s_dinner == <<"d", "i", "n", "n", "e", "r">>

s_veg == <<"v", "e", "g">>

s_non_veg == <<"n", "o", "n", "-", "v", "e", "g">>

s_vegan == <<"v", "e", "g", "a", "n">>

s_exercise_name == <<"e", "x", "e", "r", "c", "i", "s", "e", "_", "n", "a", "m", "e">>

s_goals == <<"g", "o", "a", "l", "s">>

s_duration_min == <<"d", "u", "r", "a", "t", "i", "o", "n", "_", "m", "i", "n">>

s_equipment == <<"e", "q", "u", "i", "p", "m", "e", "n", "t">>

s_difficulty == <<"d", "i", "f", "f", "i", "c", "u", "l", "t", "y">>

s_match == <<"m", "a", "t", "c", "h">>

HasColumn(df, name) == \E i \in 1..Len(df.columns) : df.columns[i] = name

ColumnIndex(df, name) == CHOOSE i \in 1..Len(df.columns) : df.columns[i] = name

\* row[name] of a frame
Cell(df, r, name) == df.rows[r][ColumnIndex(df, name)]

\* df[name] = values: a new column at the end, or the column replaced
SetColumn(df, name, values) ==
    IF HasColumn(df, name)
    THEN [df EXCEPT !.rows = [r \in 1..Len(df.rows) |->
                                [df.rows[r] EXCEPT ![ColumnIndex(df, name)] = values[r]]]]
    ELSE [columns |-> Append(df.columns, name),
          rows |-> [r \in 1..Len(df.rows) |-> Append(df.rows[r], values[r])]]

\* pd.read_csv of an existing file; the header names are kept as written
read_csv(file) == [columns |-> file.columns, rows |-> file.rows]

\* df.to_csv(path, index=False)
to_csv(df) == [columns |-> df.columns, rows |-> df.rows]

\* df.columns.str.strip().str.lower()
StripLowerColumns(df) ==
    [df EXCEPT !.columns = [i \in 1..Len(df.columns) |-> Lower(Strip(df.columns[i]))]]

rename_map(c) ==
    CASE c = s_name -> s_food_name
      [] c = s_cal_per_100g -> s_calories
      [] c = s_diet_tag -> s_diet_type
      [] OTHER -> c

\* foods_df.rename(columns=rename_map, inplace=True)
RenameColumns(df) ==
    [df EXCEPT !.columns = [i \in 1..Len(df.columns) |-> rename_map(df.columns[i])]]

meal_types == <<s_breakfast, s_lunch, s_dinner, s_snack>>

\* np.resize(meal_types, n): the list repeated cyclically to length n
Resize(list, n) == [i \in 1..n |-> list[((i - 1) % Len(list)) + 1]]

\* lines 23-41: the header normalized, synonyms renamed, meal_type and
\* diet_type added when missing
NormalizeFoods(df) ==
    LET renamed == RenameColumns(StripLowerColumns(df))
        withMeal == IF ~HasColumn(renamed, s_meal_type)
                    THEN SetColumn(renamed, s_meal_type,
                                   Resize(meal_types, Len(renamed.rows)))
                    ELSE renamed
    IN  IF ~HasColumn(withMeal, s_diet_type)
        THEN SetColumn(withMeal, s_diet_type,
                       [r \in 1..Len(withMeal.rows) |-> s_veg])
        ELSE withMeal

\* the default foods of load_foods
SeedFoods ==
    [columns |-> <<s_food_name, s_diet_type, s_cal_per_serving, s_meal_type>>,
     rows |-> << <<"Oats porridge", s_veg, 200, s_breakfast>>,
                 <<"Egg & toast", s_non_veg, 350, s_breakfast>>,
                 <<"Grilled chicken salad", s_non_veg, 400, s_lunch>>,
                 <<"Chickpea curry + rice", s_veg, 520, s_lunch>>,
                 <<"Fruit salad", s_vegan, 150, s_snack>>,
                 <<"Paneer stir-fry", s_veg, 450, s_dinner>> >>]

\* the default exercises of load_exercises
SeedExercises ==
    [columns |-> <<s_exercise_name, s_goals, s_duration_min, s_equipment,
                   s_difficulty>>,
     rows |-> << <<"Brisk walking", <<"L", "o", "s", "e", " ", "w", "e", "i", "g", "h", "t", ",", "M", "a", "i", "n", "t", "e", "n", "a", "n", "c", "e">>, 30, "none", "easy">>,
                 <<"Squats", <<"B", "u", "i", "l", "d", " ", "m", "u", "s", "c", "l", "e", ",", "G", "a", "i", "n", " ", "w", "e", "i", "g", "h", "t">>, 20, "bodyweight", "medium">>,
                 <<"Plank", <<"P", "o", "s", "t", "u", "r", "e", ",", "F", "l", "e", "x", "i", "b", "i", "l", "i", "t", "y">>, 5, "none", "easy">>,
                 <<"Resistance training (upper)", <<"B", "u", "i", "l", "d", " ", "m", "u", "s", "c", "l", "e">>, 40, "weights", "hard">>,
                 <<"Yoga flow", <<"F", "l", "e", "x", "i", "b", "i", "l", "i", "t", "y", ",", "M", "a", "i", "n", "t", "e", "n", "a", "n", "c", "e">>, 30, "none", "easy">>,
                 <<"HIIT 20min", <<"L", "o", "s", "e", " ", "w", "e", "i", "g", "h", "t">>, 20, "none", "hard">> >>]

(* The foods.csv files of the model.                                       *)

\* legacy header, spaced and capitalized, without meal_type and diet_type
LegacyFoods ==
    [columns |-> <<<<" ", "N", "a", "m", "e", " ">>, <<"D", "i", "e", "t", "_", "T", "a", "g">>, <<"C", "a", "l", "_", "P", "e", "r", "_", "1", "0", "0", "g">>>>,
     rows |-> << <<"Idli", <<"V", "E", "G">>, 120>>,
                 <<"Omelette", <<"N", "o", "n", "-", "V", "e", "g">>, 150>>,
                 <<"Tofu bowl", <<"V", "e", "g", "a", "n">>, 140>>,
                 <<"Curd rice", <<"v", "e", "g">>, 130>>,
                 <<"Dosa", <<"v", "e", "g">>, 170>> >>]

\* the standard header, capitalized
CapitalizedFoods ==
    [columns |-> <<<<"F", "o", "o", "d", "_", "N", "a", "m", "e">>, <<"D", "i", "e", "t", "_", "T", "y", "p", "e">>, <<"C", "a", "l", "_", "P", "e", "r", "_", "S", "e", "r", "v", "i", "n", "g">>, <<"M", "e", "a", "l", "_", "T", "y", "p", "e">>>>,
     rows |-> << <<"Poha", s_veg, 250, s_breakfast>>,
                 <<"Chicken wrap", s_non_veg, 480, s_lunch>> >>]

\* the standard header without the meal_type column
NoMealTypeFoods ==
    [columns |-> <<s_food_name, s_diet_type, s_cal_per_serving>>,
     rows |-> << <<"Poha", s_veg, 250>>,
                 <<"Chicken wrap", s_non_veg, 480>> >>]

\* the standard header; tags in mixed case, no breakfast or dinner row and
\* no vegan lunch
MixedCaseFoods ==
    [columns |-> <<s_food_name, s_diet_type, s_cal_per_serving, s_meal_type>>,
     rows |-> << <<"Dal", <<"V", "E", "G">>, 300, <<"L", "u", "n", "c", "h">>>>,
                 <<"Fish curry", <<"N", "o", "n", "-", "V", "e", "g">>, 450, s_lunch>>,
                 <<"Rajma", s_veg, 380, <<"L", "U", "N", "C", "H">>>>,
                 <<"Fruit bowl", <<"V", "e", "g", "a", "n">>, 100, <<"S", "n", "a", "c", "k">>>> >>]

\* the standard header and no row
EmptyFoods ==
    [columns |-> <<s_food_name, s_diet_type, s_cal_per_serving, s_meal_type>>,
     rows |-> <<>>]

FoodsFiles ==
    {SeedFoods, LegacyFoods, CapitalizedFoods, NoMealTypeFoods, MixedCaseFoods,
     EmptyFoods}

(* The exercises.csv files of the model, all of the fixed schema.          *)

\* seven rows tagged for weight loss in various spellings, one not
ManyLoseExercises ==
    [columns |-> SeedExercises.columns,
     rows |-> << <<"Jogging", <<"L", "o", "s", "e", " ", "w", "e", "i", "g", "h", "t">>, 30, "none", "medium">>,
                 <<"Stretching", <<"F", "l", "e", "x", "i", "b", "i", "l", "i", "t", "y">>, 10, "none", "easy">>,
                 <<"Cycling", <<"L", "O", "S", "E", " ", "W", "E", "I", "G", "H", "T", ",", "M", "a", "i", "n", "t", "e", "n", "a", "n", "c", "e">>, 45, "bike", "medium">>,
                 <<"Rowing", <<"l", "o", "s", "e", " ", "w", "e", "i", "g", "h", "t">>, 20, "rower", "hard">>,
                 <<"Skipping", <<"L", "o", "s", "e", " ", "w", "e", "i", "g", "h", "t">>, 10, "rope", "medium">>,
                 <<"Swimming", <<"L", "o", "s", "e", " ", "w", "e", "i", "g", "h", "t", ",", "P", "o", "s", "t", "u", "r", "e">>, 30, "pool", "medium">>,
                 <<"Stairs", <<"c", "l", "o", "s", "e", " ", "s", "e", "s", "s", "i", "o", "n", ",", "L", "o", "s", "e", " ", "w", "e", "i", "g", "h", "t">>, 15, "none", "easy">>,
                 <<"Burpees", <<"L", "o", "s", "e", " ", "w", "e", "i", "g", "h", "t">>, 10, "none", "hard">> >>]

\* two rows, neither tagged for weight loss
TwoExercises ==
    [columns |-> SeedExercises.columns,
     rows |-> << <<"Curls", <<"B", "u", "i", "l", "d", " ", "m", "u", "s", "c", "l", "e">>, 15, "weights", "medium">>,
                 <<"Wall sit", <<"P", "o", "s", "t", "u", "r", "e">>, 5, "none", "easy">> >>]

\* the header and no row
EmptyExercises == [columns |-> SeedExercises.columns, rows |-> <<>>]

ExercisesFiles == {SeedExercises, ManyLoseExercises, TwoExercises, EmptyExercises}

\* the diet preferences of the profile form, and one in another case
DietPrefs == {s_veg, s_non_veg, s_vegan, <<"V", "e", "g">>}

\* the goals of the profile form, and goals in other spellings
GoalTexts ==
    {<<"L", "o", "s", "e", " ", "w", "e", "i", "g", "h", "t">>, <<"G", "a", "i", "n", " ", "w", "e", "i", "g", "h", "t">>, <<"M", "a", "i", "n", "t", "a", "i", "n">>, <<"B", "u", "i", "l", "d", " ", "m", "u", "s", "c", "l", "e">>,
     <<"L", "O", "S", "E", " ", "f", "a", "t">>, <<" ", " ", "p", "o", "s", "t", "u", "r", "e", " ", "n", "o", "w">>}

----------------------------------------------------------------------------
(* RecommendationEngine.                                                   *)

MealSlots == <<s_breakfast, s_lunch, s_snack, s_dinner>>

NoData == <<"No data">>

\* one pass of the diet loop (lines 390-404) for meal_type: every outcome,
\* one per row that sample(1) may draw; raised names the exception that
\* leaves the loop, if one does
DietSlot(df, diet_pref, meal_type) ==
    LET hasMeal == HasColumn(df, s_meal_type)
        \* foods_df[foods_df["meal_type"].str.lower() == meal_type], or the
        \* empty pd.DataFrame(), which has no column
        subset == IF hasMeal
                  THEN {r \in 1..Len(df.rows) :
                          Lower(Cell(df, r, s_meal_type)) = meal_type}
                  ELSE {}
        subsetHasDiet == hasMeal /\ HasColumn(df, s_diet_type)
    IN  IF ~subsetHasDiet
        THEN {[raised |-> Some("KeyError: 'diet_type'")]}
        ELSE LET pref_matched == {r \in subset :
                                    Lower(Cell(df, r, s_diet_type)) = Lower(diet_pref)}
                 choice == IF pref_matched # {} THEN pref_matched ELSE subset
             IN  IF choice = {}
                 THEN {[raised |-> None, slot |-> Capitalize(meal_type),
                        row |-> 0, text |-> NoData]}
                 ELSE IF ~HasColumn(df, s_food_name)
                 THEN {[raised |-> Some("KeyError: 'food_name'")]}
                 ELSE IF ~HasColumn(df, s_cal_per_serving)
                 THEN {[raised |-> Some("KeyError: 'cal_per_serving'")]}
                 ELSE {[raised |-> None, slot |-> Capitalize(meal_type),
                        row |-> r,
                        text |-> <<Cell(df, r, s_food_name),
                                   Cell(df, r, s_cal_per_serving)>>] : r \in choice}

\* the rows of a frame that satisfy match, in frame order
RowsWhere(n, match) ==
    LET idx == {r \in 1..n : match[r]}
    IN  [k \in 1..Cardinality(idx) |->
            CHOOSE r \in idx : Cardinality({q \in idx : q < r}) = k - 1]

\* df.sample(k): every sequence of k distinct rows
Samples(n, k) ==
    {s \in [1..k -> 1..n] : \A a, b \in 1..k : a # b => s[a] # s[b]}

\* rows of the fallback sample
SampleSize == 3

\* rows that head() keeps
HeadRows == 5

Min(a, b) == IF a < b THEN a ELSE b

\* recs.head(5)
HeadOf(s, k) == SubSeq(s, 1, Min(k, Len(s)))

\* the exercise recommendation that compares the tags as written, without
\* lower()
ExerciseRecs_case_sensitive(df, desired) ==
    LET tokens == Split(Lower(desired))
        n == Len(df.rows)
    IN  IF tokens = <<>> THEN {[raised |-> Some("IndexError")]}
        ELSE IF ~HasColumn(df, s_goals) THEN {[raised |-> Some("KeyError: 'goals'")]}
        ELSE LET match == [r \in 1..n |-> Contains(Cell(df, r, s_goals), tokens[1])]
                 matched == RowsWhere(n, match)
             IN  IF matched # <<>>
                 THEN {[raised |-> None, match |-> match, rows |-> HeadOf(matched, HeadRows)]}
                 ELSE {[raised |-> None, match |-> match, rows |-> HeadOf(s, HeadRows)] :
                         s \in Samples(n, Min(SampleSize, n))}

\* the exercise recommendation (lines 411-418): every outcome, one per
\* sample the fallback may draw; rows are the positions, in ex_df, of the
\* rows written out, in the order written
ExerciseRecs(df, desired) ==
    LET tokens == Split(Lower(desired))
        n == Len(df.rows)
    IN  IF tokens = <<>>
        THEN \* desired.lower().split()[0]
             {[raised |-> Some("IndexError")]}
        ELSE IF ~HasColumn(df, s_goals)
        THEN {[raised |-> Some("KeyError: 'goals'")]}
        ELSE LET match == [r \in 1..n |->
                             Contains(Lower(Cell(df, r, s_goals)), tokens[1])]
                 matched == RowsWhere(n, match)
                 shown(rows) ==
                     IF rows # <<>> /\ ~(/\ HasColumn(df, s_exercise_name)
                                         /\ HasColumn(df, s_duration_min)
                                         /\ HasColumn(df, s_difficulty))
                     THEN [raised |-> Some("KeyError")]
                     ELSE [raised |-> None, match |-> match, rows |-> rows]
             IN  IF matched # <<>>
                 THEN {shown(HeadOf(matched, HeadRows))}
                 ELSE {shown(HeadOf(s, HeadRows)) : s \in Samples(n, Min(SampleSize, n))}

----------------------------------------------------------------------------
(* One run of the script, top to bottom.                                   *)

\* load_foods: the default file written when foods.csv is missing, then
\* the file read; the new file and the frame
load_foods(file) ==
    LET written == IF file = None THEN Some(to_csv(SeedFoods)) ELSE file
    IN  [file |-> written, df |-> read_csv(written[1])]

\* load_exercises
load_exercises(file) ==
    LET written == IF file = None THEN Some(to_csv(SeedExercises)) ELSE file
    IN  [file |-> written, df |-> read_csv(written[1])]

Raise(e) ==
    /\ crash' = Some(e)
    /\ pc' = "crashed"

\* line 20
ReadFoods ==
    /\ pc = "L20"
    /\ IF files.foods = None
       THEN Raise("FileNotFoundError") /\ UNCHANGED foods_df
       ELSE /\ foods_df' = Some(read_csv(files.foods[1]))
            /\ pc' = "L23"
            /\ UNCHANGED crash
    /\ UNCHANGED <<files, exercises_df, ex_df, session, meals, recs, storeVars, metricVars>>

\* lines 23-45
NormalizeFoodsFrame ==
    /\ pc = "L23"
    /\ foods_df' = Some(NormalizeFoods(foods_df[1]))
    /\ pc' = "L49"
    /\ UNCHANGED <<files, exercises_df, ex_df, session, meals, recs, crash,
                   storeVars, metricVars>>

\* lines 49-54: foods_df assigned again, from the file
RereadFoods ==
    /\ pc = "L49"
    /\ IF files.foods = None
       THEN Raise("FileNotFoundError") /\ UNCHANGED foods_df
       ELSE /\ foods_df' = Some(StripLowerColumns(read_csv(files.foods[1])))
            /\ pc' = "L59"
            /\ UNCHANGED crash
    /\ UNCHANGED <<files, exercises_df, ex_df, session, meals, recs, storeVars, metricVars>>

\* lines 59-64
ReadExercises ==
    /\ pc = "L59"
    /\ IF files.exercises = None
       THEN Raise("FileNotFoundError") /\ UNCHANGED exercises_df
       ELSE /\ exercises_df' = Some(StripLowerColumns(read_csv(files.exercises[1])))
            /\ pc' = "L239"
            /\ UNCHANGED crash
    /\ UNCHANGED <<files, foods_df, ex_df, session, meals, recs, storeVars, metricVars>>

\* line 239: foods_df assigned a third time
LoadFoods ==
    /\ pc = "L239"
    /\ files' = [files EXCEPT !.foods = load_foods(files.foods).file]
    /\ foods_df' = Some(load_foods(files.foods).df)
    /\ pc' = "L240"
    /\ UNCHANGED <<exercises_df, ex_df, session, meals, recs, crash, storeVars, metricVars>>

\* line 240
LoadExercises ==
    /\ pc = "L240"
    /\ files' = [files EXCEPT !.exercises = load_exercises(files.exercises).file]
    /\ ex_df' = Some(load_exercises(files.exercises).df)
    /\ pc' = "L367"
    /\ UNCHANGED <<foods_df, exercises_df, session, meals, recs, crash, storeVars, metricVars>>

\* lines 367-370: the dashboard is drawn for a logged-in user with a profile
Dashboard ==
    /\ pc = "L367"
    /\ pc' = IF session = None THEN "done" ELSE "L390"
    /\ UNCHANGED <<files, foods_df, exercises_df, ex_df, session, meals, recs, crash,
                   storeVars, metricVars>>

\* lines 390-404, one pass of the loop
SuggestMeal ==
    /\ pc = "L390"
    /\ \E o \in DietSlot(foods_df[1], session[1].diet_pref, MealSlots[Len(meals) + 1]) :
          IF o.raised # None
          THEN Raise(o.raised[1]) /\ UNCHANGED meals
          ELSE /\ meals' = Append(meals, [slot |-> o.slot, row |-> o.row, text |-> o.text])
               /\ pc' = IF Len(meals') = Len(MealSlots) THEN "L411" ELSE "L390"
               /\ UNCHANGED crash
    /\ UNCHANGED <<files, foods_df, exercises_df, ex_df, session, recs, storeVars, metricVars>>

\* lines 411-418
RecommendExercises ==
    /\ pc = "L411"
    /\ \E o \in ExerciseRecs(ex_df[1], session[1].goal) :
          IF o.raised # None
          THEN Raise(o.raised[1]) /\ UNCHANGED <<ex_df, recs>>
          ELSE /\ ex_df' = Some(SetColumn(ex_df[1], s_match, o.match))
               /\ recs' = Some(o.rows)
               /\ pc' = "done"
               /\ UNCHANGED crash
    /\ UNCHANGED <<files, foods_df, exercises_df, session, meals, storeVars, metricVars>>

\* the script starts with either file present or absent, and with a
\* logged-in user's profile or none
AppInit ==
    /\ StoreInit
    /\ MetricIdle
    /\ pc = "L20"
    /\ \E f \in {None} \cup {Some(x) : x \in FoodsFiles},
          e \in {None} \cup {Some(x) : x \in ExercisesFiles} :
          files = [foods |-> f, exercises |-> e]
    /\ foods_df = None
    /\ exercises_df = None
    /\ ex_df = None
    /\ session \in {None} \cup {Some([diet_pref |-> d, goal |-> g]) :
                                  d \in DietPrefs, g \in GoalTexts}
    /\ meals = <<>>
    /\ recs = None
    /\ crash = None

AppNext ==
    \/ ReadFoods
    \/ NormalizeFoodsFrame
    \/ RereadFoods
    \/ ReadExercises
    \/ LoadFoods
    \/ LoadExercises
    \/ Dashboard
    \/ SuggestMeal
    \/ RecommendExercises

SpecApp == AppInit /\ [][AppNext]_vars

----------------------------------------------------------------------------
(* Claims about start-up and the recommendations.                          *)

CatalogsLoaded == pc \in {"L367", "L390", "L411", "done"}

\* C5 as stated: a missing foods.csv or exercises.csv makes no run fail; a
\* default file of six rows is written instead, and every run comes to the
\* point where both catalogs are loaded and both files exist.
C5_Original ==
    /\ crash # Some("FileNotFoundError")
    /\ CatalogsLoaded =>
          /\ files.foods # None /\ files.exercises # None
          /\ foods_df # None /\ ex_df # None
    /\ pc \in {"done", "crashed"} =>
          files.foods # None /\ files.exercises # None

\* the header as lines 23-41 leave it
FoodsNormalized(df) ==
    /\ \A i \in 1..Len(df.columns) :
          /\ df.columns[i] = Lower(Strip(df.columns[i]))
          /\ df.columns[i] \notin {s_name, s_cal_per_100g, s_diet_tag}
    /\ HasColumn(df, s_meal_type)
    /\ HasColumn(df, s_diet_type)

\* C6 as stated: when the diet suggestions are computed, foods_df is the
\* normalized catalog (header trimmed and lower-cased, synonyms renamed,
\* meal_type and diet_type backfilled), and a file without the optional
\* columns causes no failure.
C6_Original ==
    /\ pc = "L390" =>
          /\ FoodsNormalized(foods_df[1])
          /\ foods_df[1] = NormalizeFoods(read_csv(files.foods[1]))
    /\ crash \notin {Some("KeyError: 'diet_type'"), Some("KeyError: 'food_name'")}

\* row r of the catalog has that meal type, compared case-insensitively
RowHasMeal(df, r, meal_type) ==
    /\ HasColumn(df, s_meal_type)
    /\ EqualIgnoringCase(Cell(df, r, s_meal_type), meal_type)

RowHasDiet(df, r, diet_pref) ==
    /\ HasColumn(df, s_diet_type)
    /\ EqualIgnoringCase(Cell(df, r, s_diet_type), diet_pref)

\* entry i of meals is what the claim says for slot i
MealAsClaimed(df, diet_pref, i) ==
    LET slotRows == {r \in 1..Len(df.rows) : RowHasMeal(df, r, MealSlots[i])}
        prefRows == {r \in slotRows : RowHasDiet(df, r, diet_pref)}
        m == meals[i]
    IN  /\ EqualIgnoringCase(m.slot, MealSlots[i])
        /\ m.text = NoData <=> slotRows = {}
        /\ m.text # NoData =>
              /\ m.row \in slotRows
              /\ prefRows # {} => m.row \in prefRows
              /\ m.text = <<Cell(df, m.row, s_food_name),
                            Cell(df, m.row, s_cal_per_serving)>>

DietLoopLeft == session # None /\ pc \in {"L411", "done"}

DietLoopRaised ==
    crash \in {Some("KeyError: 'diet_type'"), Some("KeyError: 'food_name'"),
               Some("KeyError: 'cal_per_serving'")}

\* C7 as stated: for every food catalog and diet preference the diet loop
\* reports one result for each of breakfast, lunch, snack, dinner, in that
\* order, and never raises; a slot's result is "No data" exactly when no row
\* has that meal type, and otherwise a row of that meal type, of the user's
\* diet preference whenever a row of that meal type has it.
C7_Original ==
    /\ ~DietLoopRaised
    /\ DietLoopLeft => Len(meals) = 4
    /\ \A i \in 1..Len(meals) : MealAsClaimed(foods_df[1], session[1].diet_pref, i)

HasStandardColumns(df) ==
    /\ HasColumn(df, s_food_name)
    /\ HasColumn(df, s_diet_type)
    /\ HasColumn(df, s_cal_per_serving)
    /\ HasColumn(df, s_meal_type)

\* the part of C7 the loop keeps: on a catalog whose header has the four
\* standard names the loop never raises and every slot is as claimed
DietLoopOnStandardColumns ==
    (foods_df # None /\ pc \notin {"L23", "L49", "L59", "L239"}
        /\ files.foods # None /\ HasStandardColumns(files.foods[1])) =>
        /\ ~DietLoopRaised
        /\ DietLoopLeft => Len(meals) = 4
        /\ \A i \in 1..Len(meals) : MealAsClaimed(foods_df[1], session[1].diet_pref, i)

\* the first whitespace-delimited token of s (s is not blank)
FirstToken(s) ==
    LET i == CHOOSE a \in 1..Len(s) :
                 ~IsSpace(s[a]) /\ \A k \in 1..(a - 1) : IsSpace(s[k])
        j == CHOOSE b \in i..Len(s) :
                 /\ \A k \in i..b : ~IsSpace(s[k])
                 /\ (b = Len(s) \/ IsSpace(s[b + 1]))
    IN  SubSeq(s, i, j)

ContainsIgnoringCase(text, key) ==
    \E i \in 1..(Len(text) - Len(key) + 1) :
        \A k \in 1..Len(key) : LowerChar(text[i + k - 1]) = LowerChar(key[k])

\* the rows of ex_df whose goal tags contain the goal's first token
MatchingRows ==
    {r \in 1..Len(ex_df[1].rows) :
        ContainsIgnoringCase(Cell(ex_df[1], r, s_goals), FirstToken(session[1].goal))}

====
